---- MODULE Spec2Model ----
(***************************************************************************)
(* Model of the audit control Handle (src/src/handle.rs): one operation    *)
(* per control intent, each building a netlink request, dispatching it     *)
(* through the connection handle and classifying the correlated reply      *)
(* stream.  The transport (netlink_proto::ConnectionHandle) is an external *)
(* collaborator: whether it accepts a request, which datagrams it delivers *)
(* on a reply stream and when it ends the stream are nondeterministic.     *)
(***************************************************************************)
EXTENDS Integers, Sequences, FiniteSets, TLC

\* ------------------------------------------------------------------ bounds
\* longest reply stream the transport delivers for one request
MaxStream == 2
\* number of operation calls one caller issues
MaxCalls == 2

\* ------------------------------------------------- constants of the source
NLM_F_REQUEST == 1
NLM_F_ACK == 4
NLM_F_NONREC == 256
NLM_F_EXCL == 512
NLM_F_DUMP == 768
NLM_F_CREATE == 1024
AUDIT_STATUS_ENABLED == 1
AUDIT_STATUS_PID == 4

\* bitwise or of two naturals (the `|` of the flag and mask expressions)
RECURSIVE BitOr(_, _)
BitOr(a, b) ==
    IF a = 0 THEN b
    ELSE IF b = 0 THEN a
    ELSE (IF a % 2 = 1 \/ b % 2 = 1 THEN 1 ELSE 0)
         + 2 * BitOr(a \div 2, b \div 2)

\* bitwise and of two naturals
RECURSIVE BitAnd(_, _)
BitAnd(a, b) ==
    IF a = 0 \/ b = 0 THEN 0
    ELSE (IF a % 2 = 1 /\ b % 2 = 1 THEN 1 ELSE 0)
         + 2 * BitAnd(a \div 2, b \div 2)

\* ------------------------------------------------------------ value types
\* Option<T>
None == [some |-> FALSE]
Some(x) == [some |-> TRUE, val |-> x]

\* the unit value ()
Unit == [unit |-> TRUE]

\* Result<T, Error>
Ok(v) == [ok |-> TRUE, val |-> v]
Err(e) == [ok |-> FALSE, err |-> e]

\* crate::Error variants used by the handle
RequestFailed == [kind |-> "RequestFailed"]
NetlinkError(e) == [kind |-> "NetlinkError", err |-> e]
UnexpectedMessage(m) == [kind |-> "UnexpectedMessage", msg |-> m]

\* NetlinkPayload variants
PayloadError(e) == [kind |-> "Error", err |-> e]
PayloadDone == [kind |-> "Done"]
InnerMessage(m) == [kind |-> "InnerMessage", msg |-> m]

\* AuditMessage variants
AddRule(r) == [variant |-> "AddRule", rule |-> r]
DelRule(r) == [variant |-> "DelRule", rule |-> r]
ListRules(optRule) == [variant |-> "ListRules", rule |-> optRule]
GetStatus(optStatus) == [variant |-> "GetStatus", status |-> optStatus]
SetStatus(s) == [variant |-> "SetStatus", status |-> s]

\* NetlinkMessage::new(header, payload)
NetlinkMessage_new(header, payload) == [header |-> header, payload |-> payload]

\* NetlinkHeader::default(), the header NetlinkMessage::from(payload) starts with
DefaultHeader == [flags |-> 0, sequence_number |-> 0]

\* NetlinkMessage::from(AuditMessage)
NetlinkMessage_from(m) == NetlinkMessage_new(DefaultHeader, InnerMessage(m))

\* StatusMessage::new(): every attribute zero
StatusMessage_new == [mask |-> 0, enabled |-> 0, failure |-> 0, pid |-> 0]

\* ------------------------------------------------------------- input sets
Callers == {1, 2}

Rules == [flags : {"FilterExit"}, action : {"Always", "Never"}]

\* kernel error payloads (ErrorMessage), by errno
ErrPayloads == [code : {-2, -17}]

\* statuses a caller passes to set_status
StatusArgs == [mask : {0, 5}, enabled : {0, 1}, failure : {0}, pid : {1234}]

\* statuses the kernel reports
ReplyStatuses == [mask : {0}, enabled : {0, 1}, failure : {1}, pid : {1234}]

\* pids passed to set_pid, and the pids this process may have
PidArgs == {0, 1234}
ProcessIds == {4321}

\* headers of reply datagrams
ReplyHeaders == [flags : {0, 2}, sequence_number : {1}]

\* payloads of reply datagrams
ReplyPayloads ==
    {PayloadError(e) : e \in ErrPayloads}
    \cup {PayloadDone}
    \cup {InnerMessage(ListRules(Some(r))) : r \in Rules}
    \cup {InnerMessage(ListRules(None))}
    \cup {InnerMessage(GetStatus(Some(s))) : s \in ReplyStatuses}
    \cup {InnerMessage(GetStatus(None))}
    \cup {InnerMessage(AddRule(r)) : r \in {[flags |-> "FilterExit", action |-> "Always"]}}

\* payloads that also arrive as parts of a multipart reply (header flag
\* NLM_F_MULTI = 2)
MultipartPayloads ==
    {InnerMessage(ListRules(None)),
     InnerMessage(ListRules(Some([flags |-> "FilterExit", action |-> "Always"])))}

Datagrams ==
    {d \in [header : ReplyHeaders, payload : ReplyPayloads] :
        d.header.flags = 2 => d.payload \in MultipartPayloads}

AckedOps == {"add_rule", "del_rule", "set_status", "set_enabled", "set_pid",
             "enable_events"}
SingleOps == AckedOps \cup {"get_status"}

\* the (operation, argument) pairs of the async operations
AsyncCalls ==
    {<<"add_rule", r>> : r \in Rules}
    \cup {<<"del_rule", r>> : r \in Rules}
    \cup {<<"set_status", s>> : s \in StatusArgs}
    \cup {<<"set_enabled", [value |-> b]>> : b \in BOOLEAN}
    \cup {<<"set_pid", [pid |-> p]>> : p \in PidArgs}
    \cup {<<"enable_events", Unit>>, <<"get_status", Unit>>}

\* ------------------------------------------------------------------ state
VARIABLES
    pc,          \* per caller: position of its current call
    op,          \* per caller: the operation called
    arg,         \* per caller: the argument of the call
    stream,      \* per caller: the reply stream of its request
    either,      \* per caller: the branch of the stream list_rules returned
    rightItems,  \* per caller: items the Either::Right stream still holds
    result,      \* per caller: what a single-result call resolved to
    items,       \* per caller: the items list_rules has yielded so far
    lastSent,    \* per caller: the request the transport accepted
    nCalls,      \* per caller: calls made so far
    nSent,       \* per caller: requests the transport accepted so far
    nFailed,     \* per caller: requests the transport refused so far
    process_id,  \* std::process::id()
    abandoned    \* per caller: it dropped a call whose request was in flight

vars == <<pc, op, arg, stream, either, rightItems, result, items, lastSent,
          nCalls, nSent, nFailed, process_id, abandoned>>

NoStream == [state |-> "none", received |-> <<>>, consumed |-> 0]
OpenStream == [state |-> "open", received |-> <<>>, consumed |-> 0]

\* the transport accepted the request of c
Dispatched(c) == stream[c].state # "none"

Init ==
    /\ pc = [c \in Callers |-> "idle"]
    /\ op = [c \in Callers |-> "none"]
    /\ arg = [c \in Callers |-> Unit]
    /\ stream = [c \in Callers |-> NoStream]
    /\ either = [c \in Callers |-> "none"]
    /\ rightItems = [c \in Callers |-> <<>>]
    /\ result = [c \in Callers |-> None]
    /\ items = [c \in Callers |-> <<>>]
    /\ lastSent = [c \in Callers |-> None]
    /\ nCalls = [c \in Callers |-> 0]
    /\ nSent = [c \in Callers |-> 0]
    /\ nFailed = [c \in Callers |-> 0]
    /\ process_id \in ProcessIds
    /\ abandoned = [c \in Callers |-> FALSE]

\* ------------------------------------------------- reply classification
\* acked_request_reply with a Done datagram taken for the acknowledgement
acked_request_reply_done_is_ack(next) ==
    IF next.some /\ next.val.payload.kind # "Done"
    THEN LET header == next.val.header
             payload == next.val.payload
         IN IF payload.kind = "Error"
            THEN Err(NetlinkError(payload.err))
            ELSE Err(UnexpectedMessage(NetlinkMessage_new(header, payload)))
    ELSE Ok(Unit)

\* acked_request_reply without the arm for NetlinkPayload::Error
acked_request_reply_no_error_arm(next) ==
    IF next.some
    THEN Err(UnexpectedMessage(NetlinkMessage_new(next.val.header,
                                                  next.val.payload)))
    ELSE Ok(Unit)

\* acked_request_reply rebuilding the message from the payload alone
acked_request_reply_fresh_header(next) ==
    IF next.some
    THEN IF next.val.payload.kind = "Error"
         THEN Err(NetlinkError(next.val.payload.err))
         ELSE Err(UnexpectedMessage(NetlinkMessage_new(DefaultHeader,
                                                       next.val.payload)))
    ELSE Ok(Unit)

\* acked_request, after the await: Some(message) is classified by its
\* payload, None (the stream finished) is the acknowledgement
acked_request_reply(next) ==
    IF next.some
    THEN LET header == next.val.header
             payload == next.val.payload
         IN IF payload.kind = "Error"
            THEN Err(NetlinkError(payload.err))
            ELSE Err(UnexpectedMessage(NetlinkMessage_new(header, payload)))
    ELSE Ok(Unit)

\* list_rules_map matching on the message kind only, whatever the rule slot
list_rules_map_any_list_rules(msg) ==
    IF msg.payload.kind = "InnerMessage" /\ msg.payload.msg.variant = "ListRules"
    THEN Ok(IF msg.payload.msg.rule.some
            THEN msg.payload.msg.rule.val
            ELSE [flags |-> "FilterExit", action |-> "Never"])
    ELSE IF msg.payload.kind = "Error"
    THEN Err(NetlinkError(msg.payload.err))
    ELSE Err(UnexpectedMessage(NetlinkMessage_new(msg.header, msg.payload)))

\* list_rules_map yielding RuleMessage::default() for every rule item
list_rules_map_default_rule(msg) ==
    IF /\ msg.payload.kind = "InnerMessage"
       /\ msg.payload.msg.variant = "ListRules"
       /\ msg.payload.msg.rule.some
    THEN Ok([flags |-> "FilterExit", action |-> "Never"])
    ELSE IF msg.payload.kind = "Error"
    THEN Err(NetlinkError(msg.payload.err))
    ELSE Err(UnexpectedMessage(NetlinkMessage_new(msg.header, msg.payload)))

\* the closure list_rules maps over the reply stream
list_rules_map(msg) ==
    LET header == msg.header
        payload == msg.payload
    IN IF /\ payload.kind = "InnerMessage"
          /\ payload.msg.variant = "ListRules"
          /\ payload.msg.rule.some
       THEN Ok(payload.msg.rule.val)
       ELSE IF payload.kind = "Error"
       THEN Err(NetlinkError(payload.err))
       ELSE Err(UnexpectedMessage(NetlinkMessage_new(header, payload)))

\* the error stream replaced by an empty stream
err_into_stream_empty(e) == << >>

\* the stream list_rules returns when the send failed:
\* future::err(e).into_stream()
err_into_stream(e) == << Err(e) >>

\* get_status_reply taking an absent status for a default one
get_status_reply_unwrap_or_default(next) ==
    IF ~next.some
    THEN Err(RequestFailed)
    ELSE IF /\ next.val.payload.kind = "InnerMessage"
            /\ next.val.payload.msg.variant = "GetStatus"
         THEN Ok(IF next.val.payload.msg.status.some
                 THEN next.val.payload.msg.status.val
                 ELSE StatusMessage_new)
         ELSE Err(UnexpectedMessage(NetlinkMessage_new(next.val.header,
                                                       next.val.payload)))

\* get_status, after the await: ok_or(RequestFailed), then the match
get_status_reply(next) ==
    IF ~next.some
    THEN Err(RequestFailed)
    ELSE LET header == next.val.header
             payload == next.val.payload
         IN IF /\ payload.kind = "InnerMessage"
               /\ payload.msg.variant = "GetStatus"
               /\ payload.msg.status.some
            THEN Ok(payload.msg.status.val)
            ELSE Err(UnexpectedMessage(NetlinkMessage_new(header, payload)))

\* ---------------------------------------------------- request construction
WithFlags(req, f) == [req EXCEPT !.header.flags = f]

add_rule_req(rule) ==
    WithFlags(NetlinkMessage_from(AddRule(rule)),
              BitOr(BitOr(NLM_F_REQUEST, NLM_F_ACK),
                    BitOr(NLM_F_EXCL, NLM_F_CREATE)))

\* del_rule_req without the exact-match flag
del_rule_req_no_nonrec(rule) ==
    WithFlags(NetlinkMessage_from(DelRule(rule)),
              BitOr(NLM_F_REQUEST, NLM_F_ACK))

del_rule_req(rule) ==
    WithFlags(NetlinkMessage_from(DelRule(rule)),
              BitOr(BitOr(NLM_F_REQUEST, NLM_F_ACK), NLM_F_NONREC))

list_rules_req ==
    WithFlags(NetlinkMessage_from(ListRules(None)),
              BitOr(NLM_F_REQUEST, NLM_F_DUMP))

\* enable_events_req announcing only the enabled attribute in the mask
enable_events_req_enabled_only(pid) ==
    LET status == [StatusMessage_new EXCEPT
                     !.enabled = 1,
                     !.pid = pid,
                     !.mask = AUDIT_STATUS_ENABLED]
    IN WithFlags(NetlinkMessage_from(SetStatus(status)),
                 BitOr(NLM_F_REQUEST, NLM_F_ACK))

enable_events_req(pid) ==
    LET status == [StatusMessage_new EXCEPT
                     !.enabled = 1,
                     !.pid = pid,
                     !.mask = BitOr(AUDIT_STATUS_ENABLED, AUDIT_STATUS_PID)]
    IN WithFlags(NetlinkMessage_from(SetStatus(status)),
                 BitOr(NLM_F_REQUEST, NLM_F_ACK))

set_enabled_req(value) ==
    LET status == [StatusMessage_new EXCEPT
                     !.enabled = IF value THEN 1 ELSE 0,
                     !.mask = AUDIT_STATUS_ENABLED]
    IN WithFlags(NetlinkMessage_from(SetStatus(status)),
                 BitOr(NLM_F_REQUEST, NLM_F_ACK))

\* set_pid_req with the mask of enable_events
set_pid_req_both_bits(pid) ==
    LET status == [StatusMessage_new EXCEPT
                     !.pid = pid,
                     !.mask = BitOr(AUDIT_STATUS_ENABLED, AUDIT_STATUS_PID)]
    IN WithFlags(NetlinkMessage_from(SetStatus(status)),
                 BitOr(NLM_F_REQUEST, NLM_F_ACK))

set_pid_req(pid) ==
    LET status == [StatusMessage_new EXCEPT
                     !.pid = pid,
                     !.mask = AUDIT_STATUS_PID]
    IN WithFlags(NetlinkMessage_from(SetStatus(status)),
                 BitOr(NLM_F_REQUEST, NLM_F_ACK))

get_status_req ==
    WithFlags(NetlinkMessage_from(GetStatus(None)),
              BitOr(NLM_F_REQUEST, NLM_F_DUMP))

\* set_status_req deriving mask bits from the attributes that are set
set_status_req_derive_mask(status) ==
    LET fixed == [status EXCEPT
                    !.mask = BitOr(BitOr(@, IF status.enabled # 0
                                            THEN AUDIT_STATUS_ENABLED ELSE 0),
                                   IF status.pid # 0
                                   THEN AUDIT_STATUS_PID ELSE 0)]
    IN WithFlags(NetlinkMessage_from(SetStatus(fixed)),
                 BitOr(NLM_F_REQUEST, NLM_F_ACK))

set_status_req(status) ==
    WithFlags(NetlinkMessage_from(SetStatus(status)),
              BitOr(NLM_F_REQUEST, NLM_F_ACK))

\* ------------------------------------------------------------ reply stream
\* the stream has an event for its consumer: a buffered datagram or its end
Ready(s) == s.consumed < Len(s.received) \/ s.state = "ended"

\* Stream::next() on a ready stream
StreamNext(s) ==
    IF s.consumed < Len(s.received)
    THEN Some(s.received[s.consumed + 1])
    ELSE None

\* the stream after next() returned
AfterNext(s) ==
    IF s.consumed < Len(s.received)
    THEN [s EXCEPT !.consumed = s.consumed + 1]
    ELSE s

\* request trying a refused send a second time
request_retry_once(c, message, accepted) ==
    /\ stream' = [stream EXCEPT ![c] = IF accepted THEN OpenStream ELSE NoStream]
    /\ lastSent' = [lastSent EXCEPT ![c] = IF accepted THEN Some(message) ELSE None]
    /\ nSent' = [nSent EXCEPT ![c] = IF accepted THEN @ + 1 ELSE @]
    /\ nFailed' = [nFailed EXCEPT ![c] = IF accepted THEN @ ELSE @ + 2]

\* Handle::request: hand the message to the connection handle; an accepted
\* request opens its correlated reply stream, a refused one opens nothing
request(c, message, accepted) ==
    /\ stream' = [stream EXCEPT ![c] = IF accepted THEN OpenStream ELSE NoStream]
    /\ lastSent' = [lastSent EXCEPT ![c] = IF accepted THEN Some(message) ELSE None]
    /\ nSent' = [nSent EXCEPT ![c] = IF accepted THEN @ + 1 ELSE @]
    /\ nFailed' = [nFailed EXCEPT ![c] = IF accepted THEN @ ELSE @ + 1]

\* the error Handle::request maps a refused send to
request_err == RequestFailed

\* ------------------------------------------------------------- operations
Resolve(c, r) ==
    /\ pc' = [pc EXCEPT ![c] = "done"]
    /\ result' = [result EXCEPT ![c] = Some(r)]

\* acked_request taking a refused send for an empty reply stream
acked_request_swallow_send_error(c, message) ==
    \E accepted \in BOOLEAN :
        /\ request(c, message, accepted)
        /\ IF accepted
           THEN /\ pc' = [pc EXCEPT ![c] = "awaiting"]
                /\ UNCHANGED result
           ELSE Resolve(c, Ok(Unit))
        /\ UNCHANGED <<op, arg, either, rightItems, items, nCalls, process_id, abandoned>>

\* acked_request up to its await: send, and on a refused send return the
\* error at once (the `?`); otherwise suspend on response.next()
acked_request(c, message) ==
    \E accepted \in BOOLEAN :
        /\ request(c, message, accepted)
        /\ IF accepted
           THEN /\ pc' = [pc EXCEPT ![c] = "awaiting"]
                /\ UNCHANGED result
           ELSE Resolve(c, Err(request_err))
        /\ UNCHANGED <<op, arg, either, rightItems, items, nCalls, process_id, abandoned>>

\* acked_request_await reading the replies of all exchanges from one shared
\* stream, that of the first caller that awaits
acked_request_await_shared_stream(c) ==
    LET first == CHOOSE o \in Callers :
                     /\ pc[o] = "awaiting"
                     /\ \A x \in Callers : pc[x] = "awaiting" => o <= x
    IN /\ pc[c] = "awaiting"
       /\ op[c] \in AckedOps
       /\ Ready(stream[first])
       /\ Resolve(c, acked_request_reply(StreamNext(stream[first])))
       /\ stream' = [stream EXCEPT ![first] = AfterNext(@)]
       /\ UNCHANGED <<op, arg, either, rightItems, items, lastSent, nCalls,
                      nSent, nFailed, process_id, abandoned>>

\* acked_request_await giving up on a reply stream that has no event yet
acked_request_await_timeout(c) ==
    /\ pc[c] = "awaiting"
    /\ op[c] \in AckedOps
    /\ IF Ready(stream[c])
       THEN Resolve(c, acked_request_reply(StreamNext(stream[c])))
       ELSE Resolve(c, Err(RequestFailed))
    /\ stream' = [stream EXCEPT ![c] = AfterNext(@)]
    /\ UNCHANGED <<op, arg, either, rightItems, items, lastSent, nCalls,
                   nSent, nFailed, process_id, abandoned>>

\* acked_request resumed by the first event of its reply stream
acked_request_await(c) ==
    /\ pc[c] = "awaiting"
    /\ op[c] \in AckedOps
    /\ Ready(stream[c])
    /\ Resolve(c, acked_request_reply(StreamNext(stream[c])))
    /\ stream' = [stream EXCEPT ![c] = AfterNext(@)]
    /\ UNCHANGED <<op, arg, either, rightItems, items, lastSent, nCalls,
                   nSent, nFailed, process_id, abandoned>>

\* a caller creates the future of an async operation; nothing runs until
\* the future is polled
CallAsync(c) ==
    /\ pc[c] = "idle"
    /\ nCalls[c] < MaxCalls
    /\ \E call \in AsyncCalls :
        /\ op' = [op EXCEPT ![c] = call[1]]
        /\ arg' = [arg EXCEPT ![c] = call[2]]
    /\ pc' = [pc EXCEPT ![c] = "created"]
    /\ nCalls' = [nCalls EXCEPT ![c] = @ + 1]
    /\ UNCHANGED <<stream, either, rightItems, result, items, lastSent,
                   nSent, nFailed, process_id, abandoned>>

\* first poll of each acknowledged operation
add_rule(c) ==
    /\ pc[c] = "created" /\ op[c] = "add_rule"
    /\ acked_request(c, add_rule_req(arg[c]))

del_rule(c) ==
    /\ pc[c] = "created" /\ op[c] = "del_rule"
    /\ acked_request(c, del_rule_req(arg[c]))

enable_events(c) ==
    /\ pc[c] = "created" /\ op[c] = "enable_events"
    /\ acked_request(c, enable_events_req(process_id))

set_enabled(c) ==
    /\ pc[c] = "created" /\ op[c] = "set_enabled"
    /\ acked_request(c, set_enabled_req(arg[c].value))

set_pid(c) ==
    /\ pc[c] = "created" /\ op[c] = "set_pid"
    /\ acked_request(c, set_pid_req(arg[c].pid))

set_status(c) ==
    /\ pc[c] = "created" /\ op[c] = "set_status"
    /\ acked_request(c, set_status_req(arg[c]))

\* first poll of get_status: send, `?` on a refused send, else suspend
get_status(c) ==
    /\ pc[c] = "created" /\ op[c] = "get_status"
    /\ \E accepted \in BOOLEAN :
        /\ request(c, get_status_req, accepted)
        /\ IF accepted
           THEN /\ pc' = [pc EXCEPT ![c] = "awaiting"]
                /\ UNCHANGED result
           ELSE Resolve(c, Err(request_err))
    /\ UNCHANGED <<op, arg, either, rightItems, items, nCalls, process_id, abandoned>>

\* get_status resumed by the first event of its reply stream
get_status_await(c) ==
    /\ pc[c] = "awaiting"
    /\ op[c] = "get_status"
    /\ Ready(stream[c])
    /\ Resolve(c, get_status_reply(StreamNext(stream[c])))
    /\ stream' = [stream EXCEPT ![c] = AfterNext(@)]
    /\ UNCHANGED <<op, arg, either, rightItems, items, lastSent, nCalls,
                   nSent, nFailed, process_id, abandoned>>

\* list_rules sending nothing at call time
list_rules_lazy(c) ==
    /\ pc[c] = "idle"
    /\ nCalls[c] < MaxCalls
    /\ either' = [either EXCEPT ![c] = "Left"]
    /\ op' = [op EXCEPT ![c] = "list_rules"]
    /\ pc' = [pc EXCEPT ![c] = "streaming"]
    /\ nCalls' = [nCalls EXCEPT ![c] = @ + 1]
    /\ UNCHANGED <<arg, result, items, stream, rightItems, lastSent, nSent,
                   nFailed, process_id, abandoned>>

\* list_rules is not async: the call itself sends the dump request and
\* returns Either::Left(mapped reply stream) or Either::Right(error stream)
list_rules(c) ==
    /\ pc[c] = "idle"
    /\ nCalls[c] < MaxCalls
    /\ \E accepted \in BOOLEAN :
        /\ request(c, list_rules_req, accepted)
        /\ IF accepted
           THEN /\ either' = [either EXCEPT ![c] = "Left"]
                /\ UNCHANGED rightItems
           ELSE /\ either' = [either EXCEPT ![c] = "Right"]
                /\ rightItems' = [rightItems EXCEPT
                                    ![c] = err_into_stream(request_err)]
    /\ op' = [op EXCEPT ![c] = "list_rules"]
    /\ pc' = [pc EXCEPT ![c] = "streaming"]
    /\ nCalls' = [nCalls EXCEPT ![c] = @ + 1]
    /\ UNCHANGED <<arg, result, items, process_id, abandoned>>

\* the mapped stream ending at the first item that is an error
map_poll_next_stop_at_error(next) ==
    IF next.some /\ list_rules_map(next.val).ok
    THEN Some(list_rules_map(next.val))
    ELSE None

\* poll_next of response.map(closure): every datagram gives one item, the
\* end of the reply stream gives the end of the mapped stream
map_poll_next(next) ==
    IF next.some THEN Some(list_rules_map(next.val)) ELSE None

\* the caller polls the stream list_rules returned, and the stream has an
\* item or has ended
list_rules_next(c) ==
    /\ pc[c] = "streaming"
    /\ IF either[c] = "Left"
       THEN /\ Ready(stream[c])
            /\ LET item == map_poll_next(StreamNext(stream[c]))
               IN IF item.some
                  THEN /\ items' = [items EXCEPT ![c] = Append(@, item.val)]
                       /\ UNCHANGED pc
                  ELSE /\ pc' = [pc EXCEPT ![c] = "done"]
                       /\ UNCHANGED items
            /\ stream' = [stream EXCEPT ![c] = AfterNext(@)]
            /\ UNCHANGED rightItems
       ELSE /\ IF rightItems[c] # <<>>
               THEN /\ items' = [items EXCEPT ![c] = Append(@, Head(rightItems[c]))]
                    /\ rightItems' = [rightItems EXCEPT ![c] = Tail(@)]
                    /\ UNCHANGED pc
               ELSE /\ pc' = [pc EXCEPT ![c] = "done"]
                    /\ UNCHANGED <<items, rightItems>>
            /\ UNCHANGED stream
    /\ UNCHANGED <<op, arg, either, result, lastSent, nCalls, nSent, nFailed,
                   process_id, abandoned>>

\* ------------------------------------------------------------- transport
\* the connection delivers one more datagram on the reply stream of c
Deliver(c, D) ==
    /\ pc[c] \in {"awaiting", "streaming"}
    /\ stream[c].state = "open"
    /\ Len(stream[c].received) < MaxStream
    /\ \E d \in D :
        stream' = [stream EXCEPT ![c].received = Append(@, d)]
    /\ UNCHANGED <<pc, op, arg, either, rightItems, result, items, lastSent,
                   nCalls, nSent, nFailed, process_id, abandoned>>

\* the connection ends the reply stream of c
Close(c) ==
    /\ pc[c] \in {"awaiting", "streaming"}
    /\ stream[c].state = "open"
    /\ stream' = [stream EXCEPT ![c].state = "ended"]
    /\ UNCHANGED <<pc, op, arg, either, rightItems, result, items, lastSent,
                   nCalls, nSent, nFailed, process_id, abandoned>>

\* ---------------------------------------------------------------- caller
\* the state of a caller that holds no call
Forget(c) ==
    /\ pc' = [pc EXCEPT ![c] = "idle"]
    /\ op' = [op EXCEPT ![c] = "none"]
    /\ arg' = [arg EXCEPT ![c] = Unit]
    /\ stream' = [stream EXCEPT ![c] = NoStream]
    /\ either' = [either EXCEPT ![c] = "none"]
    /\ rightItems' = [rightItems EXCEPT ![c] = <<>>]
    /\ result' = [result EXCEPT ![c] = None]
    /\ items' = [items EXCEPT ![c] = <<>>]
    /\ lastSent' = [lastSent EXCEPT ![c] = None]
    /\ UNCHANGED <<nCalls, nSent, nFailed, process_id>>

\* the caller has taken the outcome of a finished call
Return(c) ==
    /\ pc[c] = "done"
    /\ Forget(c)
    /\ UNCHANGED abandoned

\* Drop telling the kernel that the exchange is cancelled
Drop_sends_cancel(c) ==
    /\ pc[c] \in {"created", "awaiting", "streaming"}
    /\ pc' = [pc EXCEPT ![c] = "idle"]
    /\ op' = [op EXCEPT ![c] = "none"]
    /\ arg' = [arg EXCEPT ![c] = Unit]
    /\ stream' = [stream EXCEPT ![c] = NoStream]
    /\ either' = [either EXCEPT ![c] = "none"]
    /\ rightItems' = [rightItems EXCEPT ![c] = <<>>]
    /\ result' = [result EXCEPT ![c] = None]
    /\ items' = [items EXCEPT ![c] = <<>>]
    /\ lastSent' = [lastSent EXCEPT ![c] = None]
    /\ nSent' = [nSent EXCEPT ![c] = IF Dispatched(c) THEN @ + 1 ELSE @]
    /\ abandoned' = [abandoned EXCEPT ![c] = @ \/ Dispatched(c)]
    /\ UNCHANGED <<nCalls, nFailed, process_id>>

\* the caller drops a future or a stream before it finished; nothing is
\* sent for it, the transport collects the abandoned exchange
Drop(c) ==
    /\ pc[c] \in {"created", "awaiting", "streaming"}
    /\ Forget(c)
    /\ abandoned' = [abandoned EXCEPT ![c] = @ \/ Dispatched(c)]

\* ------------------------------------------------------------ specification
Step(c, D) ==
    \/ CallAsync(c)
    \/ add_rule(c)
    \/ del_rule(c)
    \/ enable_events(c)
    \/ set_enabled(c)
    \/ set_pid(c)
    \/ set_status(c)
    \/ get_status(c)
    \/ acked_request_await(c)
    \/ get_status_await(c)
    \/ list_rules(c)
    \/ list_rules_next(c)
    \/ Deliver(c, D)
    \/ Close(c)
    \/ Return(c)
    \/ Drop(c)

\* one caller issuing calls one after the other on its Handle
Next == Step(1, Datagrams)

Spec == Init /\ [][Next]_vars

\* reply datagrams of the specifications below: a kernel error and a status
ConcDatagrams ==
    {[header |-> [flags |-> 0, sequence_number |-> 1],
      payload |-> PayloadError([code |-> -17])],
     [header |-> [flags |-> 0, sequence_number |-> 1],
      payload |-> InnerMessage(GetStatus(Some([mask |-> 0, enabled |-> 1,
                                               failure |-> 1, pid |-> 1234])))]}

\* every caller has one call left: it made the others and dropped them
\* before they were polled
InitOneCall ==
    /\ pc = [c \in Callers |-> "idle"]
    /\ op = [c \in Callers |-> "none"]
    /\ arg = [c \in Callers |-> Unit]
    /\ stream = [c \in Callers |-> NoStream]
    /\ either = [c \in Callers |-> "none"]
    /\ rightItems = [c \in Callers |-> <<>>]
    /\ result = [c \in Callers |-> None]
    /\ items = [c \in Callers |-> <<>>]
    /\ lastSent = [c \in Callers |-> None]
    /\ nCalls = [c \in Callers |-> MaxCalls - 1]
    /\ nSent = [c \in Callers |-> 0]
    /\ nFailed = [c \in Callers |-> 0]
    /\ process_id \in ProcessIds
    /\ abandoned = [c \in Callers |-> FALSE]

\* two callers, each with a clone of the Handle, issuing calls concurrently;
\* the connection serves their reply streams in any order
NextConc == \E c \in Callers : Step(c, ConcDatagrams)

SpecConc == InitOneCall /\ [][NextConc]_vars

\* one caller whose pending futures are polled once their reply stream has
\* an event, on a connection that eventually ends every reply stream
NextLive == Step(1, ConcDatagrams)

SpecLive ==
    /\ InitOneCall
    /\ [][NextLive]_vars
    /\ WF_vars(Close(1))
    /\ WF_vars(acked_request_await(1))
    /\ WF_vars(get_status_await(1))

TypeOK ==
    /\ pc \in [Callers -> {"idle", "created", "awaiting", "streaming", "done"}]
    /\ \A c \in Callers :
        /\ stream[c].consumed <= Len(stream[c].received)
        /\ Len(stream[c].received) <= MaxStream
        /\ nSent[c] + nFailed[c] <= nCalls[c]

\* ------------------------------------------------------------ properties
\* what a finished call of c resolved to
Outcome(c) == result[c].val

\* the datagrams delivered on the reply stream of c, and the first of them
Received(c) == stream[c].received
First(c) == stream[c].received[1]

IsPopulatedRule(d) ==
    /\ d.payload.kind = "InnerMessage"
    /\ d.payload.msg.variant = "ListRules"
    /\ d.payload.msg.rule.some

IsPopulatedStatus(d) ==
    /\ d.payload.kind = "InnerMessage"
    /\ d.payload.msg.variant = "GetStatus"
    /\ d.payload.msg.status.some

AckedDone(c) == pc[c] = "done" /\ op[c] \in AckedOps

\* C1: an acknowledged operation resolves to Ok(()) exactly when the
\* transport accepted the request and the reply stream ended without any
\* datagram; with a first datagram it resolves to an error.
C1_SilenceIsSuccess ==
    \A c \in Callers :
        AckedDone(c) =>
            /\ (Outcome(c) = Ok(Unit))
                   <=> (stream[c].state = "ended" /\ Received(c) = <<>>)
            /\ Received(c) # <<>> => ~Outcome(c).ok

C1_Witness ==
    \E c \in Callers :
        /\ AckedDone(c)
        /\ stream[c].state = "ended"
        /\ Received(c) = <<>>
        /\ Outcome(c) = Ok(Unit)

\* C2: when the first datagram of an acknowledged operation carries a
\* kernel error payload E, the call resolves to NetlinkError(E) with that
\* same E, del_rule of an unknown rule (ENOENT) included.
C2_ErrorSurfacing ==
    \A c \in Callers :
        (AckedDone(c) /\ Received(c) # <<>> /\ First(c).payload.kind = "Error")
            => Outcome(c) = Err(NetlinkError(First(c).payload.err))

C2_Witness ==
    \E c \in Callers :
        /\ AckedDone(c)
        /\ op[c] = "del_rule"
        /\ Received(c) # <<>>
        /\ First(c).payload = PayloadError([code |-> -2])
        /\ Outcome(c) = Err(NetlinkError([code |-> -2]))

\* C3: when the first datagram of an acknowledged operation has a payload
\* that is not a kernel error payload, the call resolves to
\* UnexpectedMessage carrying the header and the payload of that datagram.
C3_UnexpectedCarriesDatagram ==
    \A c \in Callers :
        (AckedDone(c) /\ Received(c) # <<>> /\ First(c).payload.kind # "Error")
            => /\ ~Outcome(c).ok
               /\ Outcome(c).err.kind = "UnexpectedMessage"
               /\ Outcome(c).err.msg.header = First(c).header
               /\ Outcome(c).err.msg.payload = First(c).payload

C3_Witness ==
    \E c \in Callers :
        /\ AckedDone(c)
        /\ Received(c) # <<>>
        /\ First(c).payload = InnerMessage(ListRules(None))
        /\ First(c).header.flags = 2
        /\ Outcome(c) = Err(UnexpectedMessage(First(c)))

\* how a single-result operation is classified by its own reply stream
OwnClassification(o, s) ==
    IF s.received = <<>>
    THEN IF o = "get_status" THEN Err(RequestFailed) ELSE Ok(Unit)
    ELSE IF o = "get_status" /\ IsPopulatedStatus(s.received[1])
    THEN Ok(s.received[1].payload.msg.status.val)
    ELSE IF o # "get_status" /\ s.received[1].payload.kind = "Error"
    THEN Err(NetlinkError(s.received[1].payload.err))
    ELSE Err(UnexpectedMessage(s.received[1]))

\* C4: a single-result operation whose request the transport refuses
\* resolves to RequestFailed and never awaits a reply (it holds no stream);
\* a call whose request is accepted is classified by its own reply stream,
\* whatever calls failed before it on the same Handle.
C4_RequestFailedConfined ==
    \A c \in Callers :
        /\ pc[c] = "awaiting" => Dispatched(c)
        /\ (pc[c] = "done" /\ op[c] \in SingleOps) =>
            IF Dispatched(c)
            THEN Outcome(c) = OwnClassification(op[c], stream[c])
            ELSE /\ Outcome(c) = Err(RequestFailed)
                 /\ Received(c) = <<>>
                 /\ nFailed[c] > 0

\* a call classified by its reply after an earlier call on the same Handle
\* was refused by the transport
C4_Witness ==
    \E c \in Callers :
        /\ pc[c] = "done"
        /\ op[c] \in SingleOps
        /\ nFailed[c] > 0
        /\ Dispatched(c)
        /\ Received(c) # <<>>
        /\ Outcome(c) = OwnClassification(op[c], stream[c])

ListLeft(c) == op[c] = "list_rules" /\ either[c] = "Left"

\* C5: when every datagram of the dump is a populated rule item, the
\* sequence yields Ok(rule of datagram i) as its i-th item, and once it has
\* ended it has yielded exactly as many items as datagrams were delivered.
C5_Enumeration ==
    \A c \in Callers :
        (ListLeft(c) /\ \A i \in 1..Len(Received(c)) : IsPopulatedRule(Received(c)[i]))
            => /\ Len(items[c]) <= Len(Received(c))
               /\ \A i \in 1..Len(items[c]) :
                      items[c][i] = Ok(Received(c)[i].payload.msg.rule.val)
               /\ pc[c] = "done" => Len(items[c]) = Len(Received(c))

C5_Witness ==
    \E c \in Callers :
        /\ ListLeft(c)
        /\ pc[c] = "done"
        /\ Len(Received(c)) = MaxStream
        /\ \A i \in 1..Len(Received(c)) : IsPopulatedRule(Received(c)[i])
        /\ Received(c)[1].payload.msg.rule.val # Received(c)[2].payload.msg.rule.val
        /\ Len(items[c]) = MaxStream

\* C6: every datagram list_rules consumes gives exactly one item at its own
\* position, classified by that datagram alone, and an error item does not
\* end the enumeration: it ends only when the reply stream has ended and
\* every delivered datagram has been yielded.
C6_ErrorItemDoesNotEnd ==
    \A c \in Callers :
        ListLeft(c) =>
            /\ Len(items[c]) = stream[c].consumed
            /\ \A i \in 1..Len(items[c]) :
                LET d == Received(c)[i]
                IN /\ d.payload.kind = "Error"
                       => items[c][i] = Err(NetlinkError(d.payload.err))
                   /\ ~IsPopulatedRule(d) => ~items[c][i].ok
                   /\ IsPopulatedRule(d) => items[c][i].ok
            /\ pc[c] = "done" =>
                /\ stream[c].state = "ended"
                /\ Len(items[c]) = Len(Received(c))

\* an error item in the first position, followed by a rule item
C6_Witness ==
    \E c \in Callers :
        /\ ListLeft(c)
        /\ pc[c] = "done"
        /\ Len(items[c]) = 2
        /\ ~items[c][1].ok
        /\ items[c][2].ok

\* a reply datagram of the wrong kind for a rule dump
WrongKind(d) == d.payload.kind = "InnerMessage" /\ ~IsPopulatedRule(d)

\* C7: a reply datagram of the wrong kind (a status, another rule message,
\* a ListRules without rule) is yielded by list_rules as UnexpectedMessage
\* carrying the datagram's header and payload, at the datagram's position.
C7_WrongKindUnexpected ==
    \A c \in Callers :
        ListLeft(c) =>
            \A i \in 1..Len(Received(c)) :
                (WrongKind(Received(c)[i]) /\ i <= stream[c].consumed)
                    => /\ i <= Len(items[c])
                       /\ items[c][i] = Err(UnexpectedMessage(
                              NetlinkMessage_new(Received(c)[i].header,
                                                 Received(c)[i].payload)))

C7_Witness ==
    \E c \in Callers :
        /\ ListLeft(c)
        /\ Len(items[c]) = 2
        /\ Received(c)[1].payload = InnerMessage(ListRules(None))
        /\ Received(c)[2].payload \in
               {InnerMessage(GetStatus(Some(s))) : s \in ReplyStatuses}
        /\ items[c][2] = Err(UnexpectedMessage(Received(c)[2]))

ListRight(c) == op[c] = "list_rules" /\ either[c] = "Right"

\* C8: when the send of list_rules is refused, the returned sequence yields
\* the single item Err(RequestFailed) and then ends; it never yields an Ok
\* item or a second error, and no reply stream is consumed.
C8_SendFailureOneItem ==
    \A c \in Callers :
        ListRight(c) =>
            /\ ~Dispatched(c)
            /\ items[c] \in {<<>>, <<Err(RequestFailed)>>}
            /\ pc[c] = "done" => items[c] = <<Err(RequestFailed)>>

C8_Witness ==
    \E c \in Callers :
        /\ ListRight(c)
        /\ pc[c] = "done"
        /\ items[c] = <<Err(RequestFailed)>>

GetStatusDone(c) == pc[c] = "done" /\ op[c] = "get_status" /\ Dispatched(c)

\* C9: get_status is decided by the first stream event: a GetStatus reply
\* with a populated Status S gives Ok(S), any other first datagram gives
\* UnexpectedMessage carrying its header and payload, and the end of the
\* stream without a datagram gives RequestFailed.
C9_GetStatusFirstEvent ==
    \A c \in Callers :
        GetStatusDone(c) =>
            IF Received(c) = <<>>
            THEN Outcome(c) = Err(RequestFailed)
            ELSE IF IsPopulatedStatus(First(c))
            THEN Outcome(c) = Ok(First(c).payload.msg.status.val)
            ELSE Outcome(c) = Err(UnexpectedMessage(
                     NetlinkMessage_new(First(c).header, First(c).payload)))

C9_Witness ==
    \E c \in Callers :
        /\ GetStatusDone(c)
        /\ Len(Received(c)) = 2
        /\ IsPopulatedStatus(First(c))
        /\ First(c).payload.msg.status.val.enabled = 1
        /\ ~IsPopulatedStatus(Received(c)[2])
        /\ Outcome(c) = Ok(First(c).payload.msg.status.val)

\* C10: every operation, get_status included, reports NetlinkError(E) for
\* a consumed reply datagram carrying the kernel error payload E, and
\* reports UnexpectedMessage only for a datagram that is not an error
\* payload.
C10_TaxonomyEverywhere ==
    \A c \in Callers :
        /\ (pc[c] = "done" /\ op[c] \in SingleOps /\ stream[c].consumed = 1
                /\ First(c).payload.kind = "Error")
            => Outcome(c) = Err(NetlinkError(First(c).payload.err))
        /\ (pc[c] = "done" /\ op[c] \in SingleOps /\ ~Outcome(c).ok
                /\ Outcome(c).err.kind = "UnexpectedMessage")
            => Outcome(c).err.msg.payload.kind # "Error"
        /\ ListLeft(c) =>
            \A i \in 1..Len(items[c]) :
                /\ Received(c)[i].payload.kind = "Error"
                    => items[c][i] = Err(NetlinkError(Received(c)[i].payload.err))
                /\ (~items[c][i].ok /\ items[c][i].err.kind = "UnexpectedMessage")
                    => items[c][i].err.msg.payload.kind # "Error"

\* a datagram the operation o does not expect on its reply stream
Offending(o, d) ==
    \/ d.payload.kind = "Error"
    \/ /\ d.payload.kind = "InnerMessage"
       /\ IF o = "get_status" THEN ~IsPopulatedStatus(d)
          ELSE IF o = "list_rules" THEN ~IsPopulatedRule(d)
          ELSE TRUE

\* the error r reports the datagram d
Reports(r, d) ==
    /\ ~r.ok
    /\ \/ d.payload.kind = "Error" /\ r.err = NetlinkError(d.payload.err)
       \/ r.err = UnexpectedMessage(d)

\* C11: no error is silently discarded: when an operation has run to
\* completion, every error datagram and every wrong-kind datagram delivered
\* on its reply stream, at any position, is reported in what the caller
\* received.
C11_NoErrorDiscarded ==
    \A c \in Callers :
        /\ (pc[c] = "done" /\ op[c] \in SingleOps /\ Dispatched(c)) =>
            \A i \in 1..Len(Received(c)) :
                Offending(op[c], Received(c)[i])
                    => Reports(Outcome(c), Received(c)[i])
        /\ (pc[c] = "done" /\ ListLeft(c)) =>
            \A i \in 1..Len(Received(c)) :
                Offending(op[c], Received(c)[i])
                    => i <= Len(items[c]) /\ Reports(items[c][i], Received(c)[i])

\* the requests c has asked the transport to send, accepted or refused
Attempts(c) == nSent[c] + nFailed[c]

\* in this step the call of c sends at most one request, and only from the
\* first poll of its future
AtMostOneRequest(c) ==
    /\ nSent'[c] \in {nSent[c], nSent[c] + 1}
    /\ pc[c] # "created" => nSent'[c] = nSent[c]

\* the status of the SetStatus request c has sent
SentStatus(c) == lastSent[c].val.payload.msg.status

SentSetStatus(c) ==
    /\ lastSent[c].some
    /\ lastSent[c].val.payload.kind = "InnerMessage"
    /\ lastSent[c].val.payload.msg.variant = "SetStatus"

\* C12: enable_events sends one SetStatus request whose status has exactly
\* the mask bits ENABLED and PID, enabled = 1 and pid = the process id; it
\* never sends a request that sets enabled without setting pid.
C12_EnableEventsAtomic ==
    [][\A c \in Callers :
        op[c] = "enable_events" =>
            /\ AtMostOneRequest(c)
            /\ (pc[c] = "created" /\ pc'[c] = "awaiting") =>
                /\ nSent'[c] = nSent[c] + 1
                /\ SentSetStatus(c)'
                /\ SentStatus(c)'.mask = 5
                /\ BitAnd(SentStatus(c)'.mask, AUDIT_STATUS_PID) = AUDIT_STATUS_PID
                /\ SentStatus(c)'.enabled = 1
                /\ SentStatus(c)'.pid = process_id
                /\ SentStatus(c)'.failure = 0
      ]_vars

C12_Witness ==
    \E c \in Callers :
        /\ op[c] = "enable_events"
        /\ pc[c] = "done"
        /\ SentSetStatus(c)
        /\ SentStatus(c).mask = 5
        /\ SentStatus(c).pid = process_id
        /\ nSent[c] = 1

\* the attributes of a status other than the mask and those in keep are
\* as in a freshly constructed status
OthersFresh(st, keep) ==
    \A f \in (DOMAIN st) \ ({"mask"} \cup keep) : st[f] = StatusMessage_new[f]

\* C13: set_pid(p) sends a status with mask = PID only and pid = p, and
\* set_enabled(b) sends a status with mask = ENABLED only and enabled = 1
\* for true, 0 for false; every other attribute is as freshly constructed.
C13_SparseStatusWrites ==
    \A c \in Callers :
        /\ (op[c] = "set_pid" /\ lastSent[c].some) =>
            /\ SentSetStatus(c)
            /\ SentStatus(c).mask = 4
            /\ SentStatus(c).pid = arg[c].pid
            /\ OthersFresh(SentStatus(c), {"pid"})
        /\ (op[c] = "set_enabled" /\ lastSent[c].some) =>
            /\ SentSetStatus(c)
            /\ SentStatus(c).mask = 1
            /\ SentStatus(c).enabled = (IF arg[c].value THEN 1 ELSE 0)
            /\ OthersFresh(SentStatus(c), {"enabled"})

C13_Witness ==
    \E c \in Callers :
        /\ op[c] = "set_pid"
        /\ arg[c].pid = 1234
        /\ SentSetStatus(c)
        /\ SentStatus(c).mask = 4
        /\ SentStatus(c).pid = 1234

\* the flags and the envelope each intent must send
IntentFlags(o) ==
    CASE o = "add_rule" -> 1 + 4 + 512 + 1024
      [] o = "del_rule" -> 1 + 4 + 256
      [] o \in {"list_rules", "get_status"} -> 1 + 768
      [] OTHER -> 1 + 4

IntentVariant(o) ==
    CASE o = "add_rule" -> "AddRule"
      [] o = "del_rule" -> "DelRule"
      [] o = "list_rules" -> "ListRules"
      [] o = "get_status" -> "GetStatus"
      [] OTHER -> "SetStatus"

\* C14: every request carries exactly the flags and the envelope variant of
\* its intent; list_rules and get_status send an absent rule / status, the
\* rule of add_rule and del_rule is sent unchanged, and no request has ACK
\* and DUMP both set.
C14_FlagsPerIntent ==
    \A c \in Callers :
        lastSent[c].some =>
            LET req == lastSent[c].val
            IN /\ req.header.flags = IntentFlags(op[c])
               /\ req.payload.kind = "InnerMessage"
               /\ req.payload.msg.variant = IntentVariant(op[c])
               /\ op[c] \in {"add_rule", "del_rule"} => req.payload.msg.rule = arg[c]
               /\ op[c] = "list_rules" => req.payload.msg.rule = None
               /\ op[c] = "get_status" => req.payload.msg.status = None
               /\ ~(/\ BitAnd(req.header.flags, NLM_F_ACK) = NLM_F_ACK
                    /\ BitAnd(req.header.flags, NLM_F_DUMP) = NLM_F_DUMP)

C14_Witness ==
    \E c \in Callers :
        /\ op[c] = "del_rule"
        /\ lastSent[c].some
        /\ lastSent[c].val.header.flags = 261
        /\ lastSent[c].val.payload.msg.rule = arg[c]
        /\ arg[c].action = "Never"

\* how list_rules classifies one datagram
OwnItem(d) ==
    IF IsPopulatedRule(d) THEN Ok(d.payload.msg.rule.val)
    ELSE IF d.payload.kind = "Error" THEN Err(NetlinkError(d.payload.err))
    ELSE Err(UnexpectedMessage(d))

\* c holds no call and nothing of an earlier call
NoHistory(c) ==
    /\ op[c] = "none"
    /\ stream[c] = NoStream
    /\ either[c] = "none"
    /\ rightItems[c] = <<>>
    /\ result[c] = None
    /\ items[c] = <<>>
    /\ lastSent[c] = None

\* C16: abandoning a call at any point sends nothing (no cancel message,
\* no further request) and leaves the caller as one that holds no call;
\* every later call is classified by its own reply stream alone.
C16_DropLeavesHandleIntact ==
    [][\A c \in Callers :
        /\ (pc[c] \in {"created", "awaiting", "streaming"} /\ pc'[c] = "idle") =>
            /\ nSent'[c] = nSent[c]
            /\ nFailed'[c] = nFailed[c]
            /\ NoHistory(c)'
        /\ (pc'[c] = "done" /\ op'[c] \in SingleOps /\ Dispatched(c)') =>
            Outcome(c)' = OwnClassification(op'[c], stream'[c])
        /\ ListLeft(c)' =>
            /\ Len(items'[c]) = stream'[c].consumed
            /\ \A i \in 1..Len(items'[c]) :
                items'[c][i] = OwnItem(stream'[c].received[i])
      ]_vars

\* a call classified by its reply after an earlier call on the same Handle
\* was dropped with its request in flight
C16_Witness ==
    \E c \in Callers :
        /\ abandoned[c]
        /\ pc[c] = "done"
        /\ op[c] \in SingleOps
        /\ Dispatched(c)
        /\ Received(c) # <<>>
        /\ Outcome(c) = OwnClassification(op[c], stream[c])

\* the step is the dispatch point of the call of c: the first poll of an
\* async operation, or the call of list_rules
DispatchPoint(c) ==
    \/ pc[c] = "created" /\ pc'[c] \in {"awaiting", "done"}
    \/ pc[c] = "idle" /\ pc'[c] = "streaming"

\* C17: a call asks the transport to send one request at its dispatch point
\* and none at any other step, whatever it resolves to; so after k calls at
\* most k requests were asked for.
C17_NoRetries ==
    [][\A c \in Callers :
        /\ Attempts(c)' = (IF DispatchPoint(c) THEN Attempts(c) + 1 ELSE Attempts(c))
        /\ Attempts(c)' <= nCalls'[c]
        /\ (pc'[c] \in {"awaiting", "streaming", "done"}) => Attempts(c)' >= 1
      ]_vars

\* two calls, two requests, the second call resolved to a kernel error
C17_Witness ==
    \E c \in Callers :
        /\ nCalls[c] = 2
        /\ Attempts(c) = 2
        /\ nSent[c] = 2
        /\ pc[c] = "done"
        /\ op[c] \in AckedOps
        /\ ~Outcome(c).ok
        /\ Outcome(c).err.kind = "NetlinkError"

\* C19: set_status(S) sends one SetStatus request whose status equals S in
\* every attribute, mask included, also when the mask is 0.
C19_SetStatusVerbatim ==
    [][\A c \in Callers :
        op[c] = "set_status" =>
            /\ AtMostOneRequest(c)
            /\ (pc[c] = "created" /\ pc'[c] = "awaiting") =>
                /\ nSent'[c] = nSent[c] + 1
                /\ SentSetStatus(c)'
                /\ SentStatus(c)' = arg[c]
                /\ \A f \in DOMAIN arg[c] : SentStatus(c)'[f] = arg[c][f]
      ]_vars

C19_Witness ==
    \E c \in Callers :
        /\ op[c] = "set_status"
        /\ arg[c].mask = 0
        /\ arg[c].enabled = 1
        /\ SentSetStatus(c)
        /\ SentStatus(c) = arg[c]

\* C20: list_rules asks the transport to send its dump request in the call
\* itself, before the returned sequence is polled, and nothing while the
\* sequence is consumed or dropped; a single-result operation asks for
\* nothing when its future is created or dropped unpolled.
C20_DispatchTiming ==
    [][\A c \in Callers :
        /\ (pc[c] = "idle" /\ op'[c] = "list_rules") =>
            /\ Attempts(c)' = Attempts(c) + 1
            /\ either'[c] = "Left" =>
                /\ lastSent'[c].some
                /\ lastSent'[c].val.payload.msg.variant = "ListRules"
        /\ pc[c] = "streaming" => Attempts(c)' = Attempts(c)
        /\ (pc[c] = "idle" /\ op'[c] \in SingleOps) =>
            /\ pc'[c] = "created"
            /\ Attempts(c)' = Attempts(c)
            /\ ~lastSent'[c].some
        /\ (pc[c] = "created" /\ pc'[c] = "idle") => Attempts(c)' = Attempts(c)
      ]_vars

\* an async call was dropped unpolled and sent nothing; the list_rules call
\* after it has sent its request and its sequence has not been polled
C20_Witness ==
    \E c \in Callers :
        /\ nCalls[c] = 2
        /\ nSent[c] = 1
        /\ nFailed[c] = 0
        /\ op[c] = "list_rules"
        /\ pc[c] = "streaming"
        /\ items[c] = <<>>
        /\ stream[c].consumed = 0
        /\ lastSent[c].some

\* C15: with several callers using clones of one Handle, under every
\* interleaving each result is the classification of the caller's own reply
\* stream, and a call whose own stream has an event can resolve whatever
\* the state of the other callers' streams.
C15_CallersIndependent ==
    \A c \in Callers :
        /\ (pc[c] = "done" /\ op[c] \in SingleOps /\ Dispatched(c)) =>
            Outcome(c) = OwnClassification(op[c], stream[c])
        /\ ListLeft(c) =>
            /\ Len(items[c]) = stream[c].consumed
            /\ \A i \in 1..Len(items[c]) : items[c][i] = OwnItem(Received(c)[i])
        /\ (pc[c] = "awaiting" /\ Ready(stream[c])) =>
            ENABLED (acked_request_await(c) \/ get_status_await(c))
        /\ (pc[c] = "streaming" /\ (either[c] = "Right" \/ Ready(stream[c]))) =>
            ENABLED list_rules_next(c)

\* a call has resolved from its own datagram while the other caller's
\* request is still unanswered, and resolves to something else later
C15_Witness ==
    \E c, o \in Callers :
        /\ c # o
        /\ pc[c] = "done"
        /\ op[c] \in AckedOps
        /\ Dispatched(c)
        /\ Received(c) # <<>>
        /\ Outcome(c) = OwnClassification(op[c], stream[c])
        /\ pc[o] = "awaiting"
        /\ op[o] \in AckedOps
        /\ stream[o] = OpenStream

\* C18: after its request was sent, a single-result call stays pending
\* while its reply stream has no event (it resolves by no timeout); it
\* consumes at most one datagram; and when the stream eventually has an
\* event, the call resolves, unless the caller drops it first.
C18_NoTimeoutBoundedConsumption ==
    /\ [][\A c \in Callers :
            (pc[c] = "awaiting" /\ ~Ready(stream[c]))
                => pc'[c] \in {"awaiting", "idle"}]_vars
    /\ [](\A c \in Callers :
            op[c] \in SingleOps =>
                /\ stream[c].consumed <= 1
                /\ pc[c] = "awaiting" => stream[c].consumed = 0
                /\ (pc[c] = "done" /\ Dispatched(c)) =>
                    stream[c].consumed = (IF Received(c) = <<>> THEN 0 ELSE 1))
    /\ \A c \in Callers :
            (pc[c] = "awaiting") ~> (pc[c] \in {"done", "idle"})

\* a call resolved by the first of two delivered datagrams
C18_Witness ==
    \E c \in Callers :
        /\ pc[c] = "done"
        /\ op[c] \in SingleOps
        /\ Len(Received(c)) = 2
        /\ stream[c].consumed = 1
        /\ Outcome(c) = OwnClassification(op[c], stream[c])

====
